---- MODULE Spec2Model ----
(***************************************************************************)
(* Model of exercises/exercise-09/index.ts: the callback based oldApi, the *)
(* promisify adapter, the adapted api, startTheApp and the completion      *)
(* handler attached to startTheApp().                                      *)
(*                                                                         *)
(* Two routines are modelled.  "app" is the program itself (startTheApp    *)
(* and its .then handler).  "client" is a caller that applies promisify to *)
(* a wrapped function drawn from a bounded set (the four oldApi endpoints  *)
(* and functions that call back at once, later, or never) and awaits the   *)
(* value promisify returned.                                               *)
(***************************************************************************)
EXTENDS Integers, Sequences, FiniteSets, TLC

(* ---------------------------------------------------------------- bounds *)
\* Date.now() yields one of 1..MaxTime
MaxTime == 2
\* payloads of the generic wrapped functions are numbers 1..MaxData
MaxData == 2
\* the client makes at most MaxCalls awaited promisify calls
MaxCalls == 2

(* ----------------------------------------------------------- JS values   *)
Undefined == [t |-> "undefined"]
Num(n) == [t |-> "number", num |-> n]
Str(s) == [t |-> "string", str |-> s]
Array(xs) == [t |-> "array", items |-> xs]
\* an Error object, as thrown by the runtime
TypeError(m) == [t |-> "error", message |-> m]

(* ----------------------------------------------------------- sample data *)
\* (strings are kept in ASCII: "Mueller" for "M\"uller", "Paso" for "Pas\'o")
admins ==
  << [type |-> "admin", name |-> "Jane Doe", age |-> 32, role |-> "Administrator"],
     [type |-> "admin", name |-> "Bruce Willis", age |-> 64, role |-> "World saver"] >>

users ==
  << [type |-> "user", name |-> "Max Mustermann", age |-> 25, occupation |-> "Chimney sweep"],
     [type |-> "user", name |-> "Kate Mueller", age |-> 23, occupation |-> "Astronaut"] >>

\* ApiResponse<T>: the two variants
Success(d) == [status |-> "success", data |-> d]
Failure(e) == [status |-> "error", error |-> e]

QueueLengthError == "Numeric value has exceeded Number.MAX_SAFE_INTEGER."

(* ------------------------------------------------------------- oldApi    *)
\* Each endpoint is the sequence of responses it hands to its callback
\* before it returns.
requestAdmins == << Success(Array(admins)) >>

requestUsers == << Success(Array(users)) >>

requestCurrentServerTime(now) == << Success(Num(now)) >>

\* a queue length endpoint that reports a length instead of the error
requestCoffeeMachineQueueLengthSucceeds == << Success(Num(0)) >>

requestCoffeeMachineQueueLength == << Failure(Str(QueueLengthError)) >>

OldApiNames ==
  {"requestAdmins", "requestUsers", "requestCurrentServerTime",
   "requestCoffeeMachineQueueLength"}

\* a wrapped function: an oldApi endpoint, or a function f that calls its
\* callback with resp at once ("sync"), later ("later"), or never ("never")
OldApiFn(n) == [name |-> n]

Responses ==
  {Success(Num(n)) : n \in 1..MaxData} \cup {Failure(Str("E1"))}

Wrapped ==
  {OldApiFn(n) : n \in OldApiNames}
    \cup {[name |-> "f", mode |-> m, resp |-> r] : m \in {"sync", "later"}, r \in Responses}
    \cup {[name |-> "f", mode |-> "never"]}

\* responses arg passes to the callback before arg returns
CallbacksBeforeReturn(arg, now) ==
  CASE arg.name = "requestAdmins" -> requestAdmins
    [] arg.name = "requestUsers" -> requestUsers
    [] arg.name = "requestCurrentServerTime" -> requestCurrentServerTime(now)
    [] arg.name = "requestCoffeeMachineQueueLength" -> requestCoffeeMachineQueueLength
    [] OTHER -> IF arg.mode = "sync" THEN << arg.resp >> ELSE << >>

\* responses arg will pass to the callback after arg has returned
CallbacksLater(arg) ==
  IF arg.name = "f" /\ arg.mode = "later" THEN << arg.resp >> ELSE << >>

(* ----------------------------------------------------------- promisify   *)
\* the callback promisify hands to arg; its return value goes nowhere
tempCallback(response) ==
  IF response.status = "success" THEN response.data ELSE response.error

\* a promisify that invokes arg a second time
promisifyInvokesTwice(arg, now) ==
  [ ret |-> Undefined,
    invoked |-> << arg, arg >>,
    callbacks |-> CallbacksBeforeReturn(arg, now) \o CallbacksBeforeReturn(arg, now),
    later |-> CallbacksLater(arg) \o CallbacksLater(arg) ]

\* promisify(arg): builds tempCallback, invokes arg(tempCallback), and falls
\* off the end of the function, so the call evaluates to undefined.
promisify(arg, now) ==
  [ ret |-> Undefined,
    invoked |-> << arg >>,
    callbacks |-> CallbacksBeforeReturn(arg, now),
    later |-> CallbacksLater(arg) ]

\* api: the adapted endpoints
api(n, now) == promisify(OldApiFn(n), now)

(* ------------------------------------------------------------- state     *)
VARIABLES
  routine,   \* "app" or "client"
  pc,        \* position of the routine
  step,      \* app: the step whose await is pending (1..4); client: calls made
  awaiting,  \* index in calls of the call whose value is being awaited, or 0
  calls,     \* promisify calls made so far: [f, ret]
  invoked,   \* log of invocations of wrapped functions: [call, f]
  cbs,       \* log of callback invocations: [call, response, result, sync]
  timers,    \* callbacks still to be fired: [call, response]
  settled,   \* completed awaits: [call, outcome, value]
  out,       \* lines written to standard output
  app,       \* the promise returned by startTheApp()
  handler    \* branches of the completion handler that have run

vars ==
  << routine, pc, step, awaiting, calls, invoked, cbs, timers, settled, out,
     app, handler >>

\* the part of the state a promisify call touches
World == [calls |-> calls, invoked |-> invoked, cbs |-> cbs, timers |-> timers]

\* the world after one more call promisify(arg)
CallOn(w, arg, now) ==
  LET p == promisify(arg, now)
      c == Len(w.calls) + 1
  IN [ calls |-> Append(w.calls, [f |-> arg, ret |-> p.ret]),
       invoked |-> w.invoked \o [i \in 1..Len(p.invoked) |-> [call |-> c, f |-> p.invoked[i]]],
       cbs |-> w.cbs \o [i \in 1..Len(p.callbacks) |->
                 [call |-> c, response |-> p.callbacks[i],
                  result |-> tempCallback(p.callbacks[i]), sync |-> TRUE]],
       timers |-> w.timers \cup {[call |-> c, response |-> p.later[i]] : i \in 1..Len(p.later)} ]

SetWorld(w) ==
  /\ calls' = w.calls
  /\ invoked' = w.invoked
  /\ cbs' = w.cbs
  /\ timers' = w.timers

\* await v, v not a thenable: the routine resumes with v itself
AwaitOutcome(v) == [outcome |-> "fulfilled", value |-> v]

Init ==
  /\ routine \in {"app", "client"}
  /\ pc = "start"
  /\ step = 0
  /\ awaiting = 0
  /\ calls = << >>
  /\ invoked = << >>
  /\ cbs = << >>
  /\ timers = {}
  /\ settled = << >>
  /\ out = << >>
  /\ app = [state |-> "pending"]
  /\ handler = << >>

(* ------------------------------------------------------------- client    *)
\* x = await promisify(arg)
ClientCall ==
  /\ routine = "client"
  /\ pc = "start"
  /\ step < MaxCalls
  /\ \E arg \in Wrapped, now \in 1..MaxTime :
       SetWorld(CallOn(World, arg, now))
  /\ awaiting' = Len(calls) + 1
  /\ step' = step + 1
  /\ pc' = "await"
  /\ UNCHANGED << routine, settled, out, app, handler >>

\* the await completes and the caller goes on
ClientResume ==
  /\ routine = "client"
  /\ pc = "await"
  /\ LET o == AwaitOutcome(calls[awaiting].ret)
     IN settled' = Append(settled, [call |-> awaiting, outcome |-> o.outcome, value |-> o.value])
  /\ awaiting' = 0
  /\ pc' = "start"
  /\ UNCHANGED << routine, step, calls, invoked, cbs, timers, out, app, handler >>

\* the caller returns
ClientDone ==
  /\ routine = "client"
  /\ pc = "start"
  /\ step > 0
  /\ pc' = "done"
  /\ UNCHANGED << routine, step, awaiting, calls, invoked, cbs, timers, settled, out, app, handler >>

\* a wrapped function that calls back later does so now
FireCallback ==
  /\ \E tm \in timers :
       /\ timers' = timers \ {tm}
       /\ cbs' = Append(cbs, [call |-> tm.call, response |-> tm.response,
                              result |-> tempCallback(tm.response), sync |-> FALSE])
  /\ UNCHANGED << routine, pc, step, awaiting, calls, invoked, settled, out, app, handler >>

(* ---------------------------------------------------------- startTheApp  *)
Line(s) == [line |-> s]

\* logPerson: name, age, then role (admin) or occupation (user)
logPerson(person) ==
  [ line |-> " - ", name |-> person.name, age |-> person.age,
    detail |-> IF person.type = "admin" THEN person.role ELSE person.occupation ]

\* the order in which startTheApp awaits the adapted endpoints
StepEndpoint ==
  << "requestAdmins", "requestUsers", "requestCurrentServerTime",
     "requestCoffeeMachineQueueLength" >>

\* new Date(v).toLocaleString(): never throws, "Invalid Date" unless v is a time
DateLine(v) ==
  IF v.t = "number" THEN [line |-> "   ", time |-> v.num] ELSE Line("   Invalid Date")

\* the body of startTheApp from the await of step k, resumed with value v, up
\* to the next await (next = k + 1), the return (next = 0) or a throw
Continue(k, v) ==
  CASE k \in {1, 2} ->
         IF v.t = "array"
           THEN [ throws |-> FALSE,
                  lines |-> [i \in 1..Len(v.items) |-> logPerson(v.items[i])]
                              \o << Line("") >>
                              \o (IF k = 1 THEN << Line("Paso 1"), Line("Users:") >>
                                           ELSE << Line("Paso 2"), Line("Server time:") >>),
                  next |-> k + 1 ]
           ELSE [ throws |-> TRUE,
                  error |-> TypeError(IF v.t = "undefined"
                                        THEN "Cannot read properties of undefined (reading 'forEach')"
                                        ELSE "forEach is not a function") ]
    [] k = 3 ->
         [ throws |-> FALSE,
           lines |-> << DateLine(v), Line(""), Line("Paso 3"),
                        Line("Coffee machine queue length:") >>,
           next |-> 4 ]
    [] k = 4 ->
         [ throws |-> FALSE,
           lines |-> << [line |-> "   ", value |-> v], Line("Paso 4") >>,
           next |-> 0 ]

\* startTheApp() up to its first await
AppStart ==
  /\ routine = "app"
  /\ pc = "start"
  /\ \E now \in 1..MaxTime :
       LET w1 == CallOn(World, OldApiFn("requestAdmins"), now)
           w2 == CallOn(w1, OldApiFn("requestAdmins"), now)
       IN /\ SetWorld(w2)
          /\ out' = out \o << Line("Paso 0"),
                              [line |-> "Siiii siiii 1", value |-> w1.calls[Len(w1.calls)].ret],
                              [line |-> "Siiii siiii 2", value |-> [t |-> "function"]],
                              Line("Admins:") >>
          /\ awaiting' = Len(w2.calls)
  /\ step' = 1
  /\ pc' = "await"
  /\ UNCHANGED << routine, settled, app, handler >>

\* the pending await completes and startTheApp runs on to the next await, to
\* its end, or to a throw
AppResume ==
  /\ routine = "app"
  /\ pc = "await"
  /\ \E now \in 1..MaxTime :
       LET o == AwaitOutcome(calls[awaiting].ret)
           k == IF o.outcome = "rejected"
                  THEN [throws |-> TRUE, error |-> o.value]
                  ELSE Continue(step, o.value)
       IN /\ settled' = Append(settled, [call |-> awaiting, outcome |-> o.outcome, value |-> o.value])
          /\ IF k.throws
               THEN /\ app' = [state |-> "rejected", value |-> k.error]
                    /\ pc' = "settled"
                    /\ awaiting' = 0
                    /\ UNCHANGED << step, out, calls, invoked, cbs, timers >>
               ELSE IF k.next = 0
                 THEN /\ app' = [state |-> "fulfilled", value |-> Undefined]
                      /\ pc' = "settled"
                      /\ awaiting' = 0
                      /\ out' = out \o k.lines
                      /\ UNCHANGED << step, calls, invoked, cbs, timers >>
                 ELSE /\ SetWorld(CallOn(World, OldApiFn(StepEndpoint[k.next]), now))
                      /\ awaiting' = Len(calls) + 1
                      /\ step' = k.next
                      /\ out' = out \o k.lines
                      /\ pc' = "await"
                      /\ UNCHANGED app
  /\ UNCHANGED << routine, handler >>

\* e.message as the handler reads it
Message(e) == IF e.t = "error" THEN e.message ELSE "undefined"

\* a handler whose rejection branch also runs after a success and whose
\* success branch also runs after a failure
onSettledBoth(state) == << "onFulfilled", "onRejected" >>

\* startTheApp().then(onFulfilled, onRejected): the branches that run
onSettled(state) ==
  IF state = "fulfilled" THEN << "onFulfilled" >> ELSE << "onRejected" >>

HandlerLine(branch, e) ==
  IF branch = "onFulfilled"
    THEN Line("Success!")
    ELSE [line |-> "Error: ", message |-> Message(e),
          tail |-> ", but it's fine, sometimes errors are inevitable."]

\* the completion handler runs once startTheApp()'s promise is settled
Handler ==
  /\ routine = "app"
  /\ pc = "settled"
  /\ LET bs == onSettled(app.state)
     IN /\ handler' = handler \o bs
        /\ out' = out \o [i \in 1..Len(bs) |-> HandlerLine(bs[i], app.value)]
  /\ pc' = "done"
  /\ UNCHANGED << routine, step, awaiting, calls, invoked, cbs, timers, settled, app >>

Next ==
  \/ AppStart
  \/ AppResume
  \/ Handler
  \/ ClientCall
  \/ ClientResume
  \/ ClientDone
  \/ FireCallback

Spec == Init /\ [][Next]_vars

\* the event loop runs whatever is ready
FairSpec == Spec /\ WF_vars(Next)

(* ------------------------------------------------------------ properties *)
\* C1: whenever a wrapped function has handed a success response carrying d
\* to its callback, an await of the value promisify returned for that call
\* that has completed has completed successfully with exactly d.
C1_SuccessResolvesWithData ==
  \A i \in DOMAIN settled : \A j \in DOMAIN cbs :
    (cbs[j].call = settled[i].call /\ cbs[j].response.status = "success")
      => (settled[i].outcome = "fulfilled" /\ settled[i].value = cbs[j].response.data)

\* C2: whenever a wrapped function has handed an error response carrying e
\* to its callback, a completed await of the value promisify returned for
\* that call is a failure whose cause is exactly e; in particular the
\* adapted requestCoffeeMachineQueueLength rejects with the fixed message.
C2_ErrorRejectsWithMessage ==
  \A i \in DOMAIN settled :
    /\ \A j \in DOMAIN cbs :
         (cbs[j].call = settled[i].call /\ cbs[j].response.status = "error")
           => (settled[i].outcome = "rejected" /\ settled[i].value = cbs[j].response.error)
    /\ calls[settled[i].call].f.name = "requestCoffeeMachineQueueLength"
         => (settled[i].outcome = "rejected" /\ settled[i].value = Str(QueueLengthError))

\* C3: once a call promisify(f) has returned, f has been invoked exactly once
\* for that call, and this stays so whatever happens afterwards; no wrapped
\* function is invoked outside a promisify call.
C3_InvokedExactlyOnce ==
  /\ \A c \in DOMAIN calls :
       /\ Cardinality({i \in DOMAIN invoked : invoked[i].call = c}) = 1
       /\ \A i \in DOMAIN invoked : invoked[i].call = c => invoked[i].f = calls[c].f
  /\ Len(invoked) = Len(calls)

\* C3 witness: two calls have been made, one of them to a function whose
\* callback fired later, and everything has run to the end.
C3_Witness ==
  /\ pc = "done"
  /\ timers = {}
  /\ Len(calls) >= 2
  /\ \E j \in DOMAIN cbs : ~cbs[j].sync

\* C4: an await of the value promisify returned for a wrapped function that
\* never invokes its callback never completes, and the awaiting routine makes
\* no later step.
C4_NeverCalledBackNeverCompletes ==
  \A c \in DOMAIN calls :
    (calls[c].f.name = "f" /\ calls[c].f.mode = "never")
      => /\ \A i \in DOMAIN settled : settled[i].call # c
         /\ Len(calls) = c
         /\ pc # "done"

\* C5: the adapted requestAdmins, requestUsers and requestCurrentServerTime
\* resolve with the data the old endpoint passed to its callback, and
\* requestAdmins resolves to Jane Doe/32/Administrator followed by
\* Bruce Willis/64/World saver.
C5_AdaptedEndpointsResolveWithData ==
  \A i \in DOMAIN settled :
    LET f == calls[settled[i].call].f
    IN /\ f.name \in {"requestAdmins", "requestUsers", "requestCurrentServerTime"}
            => /\ settled[i].outcome = "fulfilled"
               /\ \E j \in DOMAIN cbs :
                    cbs[j].call = settled[i].call /\ settled[i].value = cbs[j].response.data
       /\ f.name = "requestAdmins"
            => /\ settled[i].value.t = "array"
               /\ Len(settled[i].value.items) = 2
               /\ LET a == settled[i].value.items
                  IN /\ a[1].name = "Jane Doe" /\ a[1].age = 32 /\ a[1].role = "Administrator"
                     /\ a[2].name = "Bruce Willis" /\ a[2].age = 64 /\ a[2].role = "World saver"

\* C6: startTheApp awaits admins, users, server time and queue length in that
\* order, each only after the previous await has completed; the remaining
\* steps are given up only when an awaited call has failed, that failure is
\* the one startTheApp() fails with, and the completion handler then runs
\* once and the program ends.
C6_StepsInOrderAbortOnFirstFailure ==
  routine = "app" =>
    /\ \A i \in DOMAIN settled : calls[settled[i].call].f.name = StepEndpoint[i]
    /\ awaiting # 0 => (Len(settled) = step - 1 /\ calls[awaiting].f.name = StepEndpoint[step])
    /\ (pc \in {"settled", "done"} /\ Len(settled) < Len(StepEndpoint))
         => \E i \in DOMAIN settled : settled[i].outcome = "rejected"
    /\ app.state = "rejected"
         => \E i \in DOMAIN settled :
              settled[i].outcome = "rejected" /\ settled[i].value = app.value
    /\ pc = "done" => Len(handler) = 1

\* C7: when the program has ended, the output holds the admin lines, the user
\* lines and the server time line, then exactly one error line, which is the
\* last line; neither the queue length value line nor "Paso 4" nor "Success!"
\* is printed.
C7_OutputOfFullRun ==
  (routine = "app" /\ pc = "done") =>
    /\ \E a, u, t \in DOMAIN out :
         /\ a < u /\ u < t /\ t < Len(out)
         /\ out[a] = logPerson(admins[2])
         /\ out[u] = logPerson(users[2])
         /\ out[t].line = "   " /\ "time" \in DOMAIN out[t]
    /\ Cardinality({i \in DOMAIN out : out[i].line = "Error: "}) = 1
    /\ out[Len(out)].line = "Error: "
    /\ \A i \in DOMAIN out :
         /\ out[i].line \notin {"Paso 4", "Success!"}
         /\ ~(out[i].line = "   " /\ "value" \in DOMAIN out[i])

\* C8: the error line the completion handler prints carries the message
\* requestCoffeeMachineQueueLength handed to its callback.
C8_ErrorLineCarriesQueueMessage ==
  routine = "app" =>
    \A i \in DOMAIN out :
      out[i].line = "Error: " => out[i].message = QueueLengthError

\* C9: every invocation of an oldApi endpoint has called the callback exactly
\* once, before the endpoint returned, with the endpoint's fixed response:
\* success with the admin list, the user list or the current time, and for
\* requestCoffeeMachineQueueLength an error with the fixed message.
C9_OldApiCallsBackOnceSync ==
  \A c \in DOMAIN calls :
    calls[c].f.name \in OldApiNames =>
      LET js == {j \in DOMAIN cbs : cbs[j].call = c}
          n == calls[c].f.name
      IN /\ Cardinality(js) = 1
         /\ \A j \in js :
              /\ cbs[j].sync
              /\ n = "requestAdmins" => cbs[j].response = Success(Array(admins))
              /\ n = "requestUsers" => cbs[j].response = Success(Array(users))
              /\ n = "requestCurrentServerTime"
                   => /\ cbs[j].response.status = "success"
                      /\ cbs[j].response.data.t = "number"
                      /\ cbs[j].response.data.num \in 1..MaxTime
              /\ n = "requestCoffeeMachineQueueLength"
                   => cbs[j].response = [status |-> "error",
                        error |-> Str("Numeric value has exceeded Number.MAX_SAFE_INTEGER.")]

\* C9 witness: the server time endpoint and the queue length endpoint have
\* both been invoked and the caller has finished.
C9_Witness ==
  /\ pc = "done"
  /\ \E c, d \in DOMAIN calls :
       /\ calls[c].f.name = "requestCurrentServerTime"
       /\ calls[d].f.name = "requestCoffeeMachineQueueLength"

\* C10: every run of the program reaches its end; the completion handler runs
\* at most one branch, and at the end it has run exactly one, whose line
\* ("Success!" or the error line) is the last line of the output and the
\* only such line.
C10_TerminatesWithOneBranch ==
  /\ (routine = "app") ~> (routine = "app" /\ pc = "done")
  /\ [](routine = "app" =>
         /\ Len(handler) <= 1
         /\ Cardinality({i \in DOMAIN out : out[i].line \in {"Success!", "Error: "}}) = Len(handler)
         /\ pc = "done" => (Len(handler) = 1 /\ out[Len(out)].line \in {"Success!", "Error: "}))

\* C10 witness: the program has ended after the rejection branch ran.
C10_Witness ==
  /\ routine = "app"
  /\ pc = "done"
  /\ handler = << "onRejected" >>
  /\ out[Len(out)].line = "Error: "
====
